---------------------------- MODULE Spec2Model ----------------------------
(***************************************************************************)
(* A model of crowd_frontend.py: the letterbox geometry of                 *)
(* preprocess_image, the occupancy classifier occupancy_level, the         *)
(* annotation helper draw_results and the two Tk button handlers           *)
(* browse_image and process_image with the widgets they update.            *)
(*                                                                         *)
(* Four specifications share the variables below:                          *)
(*   Spec      the window: any sequence of the two button handlers         *)
(*   SpecOcc   occupancy_level applied to bounded inputs                   *)
(*   SpecPre   preprocess_image applied to bounded image shapes            *)
(*   SpecDraw  draw_results applied to bounded images and detections       *)
(***************************************************************************)
EXTENDS Integers, Sequences, FiniteSets

VARIABLES
    img_path,       \* the module global img_path (None, "" or a path)
    img_label,      \* the image shown by img_label
    count_var,      \* the text of count_var, a sequence of characters
    occupancy_var,  \* the text of occupancy_var
    last,           \* what the last handler run did (history)
    ever_selected,  \* a choose-file dialog has returned a path (history)
    runs_ok,        \* a process_image run has reached its end (history)
    call,           \* the arguments of the function under study
    ret,            \* its result, NoRet before it has run
    heap            \* the numpy arrays alive: reference -> pixels

vars == <<img_path, img_label, count_var, occupancy_var, last,
          ever_selected, runs_ok, call, ret, heap>>

gui_vars == <<img_path, img_label, count_var, occupancy_var, last,
              ever_selected, runs_ok>>

fn_vars == <<call, ret, heap>>

(***************************************************************************)
(* Bounds of the model and constants of the program.                       *)
(***************************************************************************)
MaxCount == 20          \* detection counts 0..MaxCount
MaxArea == 8            \* small image_area values 1..MaxArea
MaxAvg == 8             \* small avg_area_per_person values 1..MaxAvg
MaxDim == 24            \* image heights and widths 1..MaxDim
MaxTarget == 16         \* small target_size values 1..MaxTarget
ImgSide == 2            \* draw_results works on ImgSide x ImgSide images
MaxDet == 2             \* at most MaxDet boxes in a detection result
MaxBoxes == 18          \* the detector returns 0..MaxBoxes boxes in the window

DefaultTargetSize == 640
DefaultAvgArea == 15000
DefaultImageArea == DefaultTargetSize * DefaultTargetSize
PreviewSide == 300

None == "<None>"
NoRet == [status |-> "not run"]
NoCall == [fn |-> "none"]

(***************************************************************************)
(* occupancy_level.  The code evaluates                                    *)
(*   occupancy_percent = (count * avg_area_per_person / image_area) * 100  *)
(* in double precision and compares it with 25 and 60.  For integer        *)
(* arguments below 2^31 the comparison of the double agrees with the       *)
(* comparison of the exact rational: a quotient equal to 1/4 is exact, the *)
(* double nearest 3/5 times 100 rounds to 60.0, and any other quotient is  *)
(* further from 1/4 and 3/5 than the rounding error.  The model therefore  *)
(* compares count*avg*100 with 25*image_area and 60*image_area.            *)
(***************************************************************************)
PercentBelow(count, image_area, avg_area_per_person, threshold) ==
    count * avg_area_per_person * 100 < threshold * image_area

occupancy_level_LowInclusive(count, image_area, avg_area_per_person) ==
    IF count = 0 THEN "Low"
    ELSE IF count * avg_area_per_person * 100 <= 25 * image_area
         THEN "Low"
    ELSE IF PercentBelow(count, image_area, avg_area_per_person, 60)
         THEN "Medium"
    ELSE "High"

occupancy_level(count, image_area, avg_area_per_person) ==
    IF count = 0 THEN "Low"
    ELSE IF PercentBelow(count, image_area, avg_area_per_person, 25)
         THEN "Low"
    ELSE IF PercentBelow(count, image_area, avg_area_per_person, 60)
         THEN "Medium"
    ELSE "High"

Levels == {"Low", "Medium", "High"}

(***************************************************************************)
(* The state of the window right after the layout code has run.            *)
(***************************************************************************)
InitGui ==
    /\ img_path = None
    /\ img_label = [kind |-> "placeholder", path |-> None]
    /\ count_var = <<"0">>
    /\ occupancy_var = "N/A"
    /\ last = [kind |-> "init", outcome |-> "ok", steps |-> {}, n |-> 0,
               propagated |-> FALSE]
    /\ ever_selected = FALSE
    /\ runs_ok = FALSE

IdleFn ==
    /\ call = NoCall
    /\ ret = NoRet
    /\ heap = <<>>

(***************************************************************************)
(* SpecOcc: occupancy_level on bounded inputs, the defaults included.      *)
(***************************************************************************)
Areas == (1..MaxArea) \cup {DefaultImageArea}
AvgAreas == (1..MaxAvg) \cup {DefaultAvgArea}

InitOcc ==
    /\ InitGui
    /\ heap = <<>>
    /\ ret = NoRet
    /\ \E c \in 0..MaxCount, a \in Areas, v \in AvgAreas :
          call = [fn |-> "occupancy_level", count |-> c, image_area |-> a,
                  avg_area_per_person |-> v]

ApplyOccupancy ==
    /\ call.fn = "occupancy_level"
    /\ ret = NoRet
    /\ ret' = [status |-> "ok",
               value |-> occupancy_level(call.count, call.image_area,
                                         call.avg_area_per_person)]
    /\ UNCHANGED <<gui_vars, call, heap>>

NextOcc == ApplyOccupancy

SpecOcc == InitOcc /\ [][NextOcc]_vars

OccDone == call.fn = "occupancy_level" /\ ret # NoRet

\* C1: for count >= 0 and positive image_area and avg_area_per_person the
\* result is one of Low/Medium/High, Low iff percent < 25, Medium iff
\* 25 <= percent < 60, High iff percent >= 60, with
\* percent = count*avg_area_per_person*100/image_area; count = 0 is Low and
\* with the defaults 409600/15000 the counts 4, 10, 17 give Low, Medium, High.
C1_Thresholds ==
    OccDone =>
        LET c == call.count
            a == call.image_area
            v == call.avg_area_per_person
            p100 == c * v * 100
        IN  /\ ret.value \in Levels
            /\ (ret.value = "Low") <=> (p100 < 25 * a)
            /\ (ret.value = "Medium") <=> (25 * a <= p100 /\ p100 < 60 * a)
            /\ (ret.value = "High") <=> (p100 >= 60 * a)
            /\ (c = 0) => (ret.value = "Low")
            /\ (a = 409600 /\ v = 15000) =>
                   /\ (c = 4) => (ret.value = "Low")
                   /\ (c = 10) => (ret.value = "Medium")
                   /\ (c = 17) => (ret.value = "High")

\* C1 witness: a percent of exactly 25 has been classified Medium.
C1_Witness ==
    /\ OccDone
    /\ call.count > 0
    /\ call.count * call.avg_area_per_person * 100 = 25 * call.image_area
    /\ ret.value = "Medium"

(***************************************************************************)
(* preprocess_image, lines 14-22: the geometry of the letterbox.           *)
(*                                                                         *)
(* scale = target_size / max(h0, w0) is a double, and int(w0 * scale)      *)
(* truncates the double product.  With q the double nearest S/m and        *)
(* K = w*S/m:                                                              *)
(*   - when m does not divide w*S, K is at least 1/m away from an integer, *)
(*     far more than the rounding error, and int gives floor(K);           *)
(*   - when m divides w*S, the product is exactly K unless q was rounded   *)
(*     down by more than half a unit in the last place of K, and then the  *)
(*     product is the double just below K and int gives K - 1.             *)
(* q = M / 2^k with M = round(S * 2^k / m) of 53 bits, k = 52 - a and      *)
(* 2^a <= S/m < 2^(a+1).  With r = (S * 2^k) mod m, q is rounded down by   *)
(* r / (m * 2^k) when 0 < 2r < m.  Half a unit in the last place below K   *)
(* is 2^(j-53), j = floor(log2 K), or 2^(j-54) when K is a power of two.   *)
(* So the product falls below K iff  4 * w * r > m * 2^(j - a + 1 - p),    *)
(* p = 1 for a power of two and 0 otherwise.  Only numbers below 2^31 are  *)
(* needed to evaluate this.                                                *)
(***************************************************************************)
Max(a, b) == IF a >= b THEN a ELSE b

RECURSIVE Pow2(_)
Pow2(e) == IF e <= 0 THEN 1 ELSE 2 * Pow2(e - 1)

\* floor(log2(n / d)) for positive n and d
RECURSIVE FloorLog2(_, _)
FloorLog2(n, d) ==
    IF n >= d
    THEN IF n >= 2 * d THEN 1 + FloorLog2(n, 2 * d) ELSE 0
    ELSE FloorLog2(2 * n, d) - 1

\* (b * 2^k) mod m
RECURSIVE ShiftMod(_, _, _)
ShiftMod(b, k, m) ==
    IF k = 0 THEN b % m ELSE (2 * ShiftMod(b, k - 1, m)) % m

IsPow2(K) == K = Pow2(FloorLog2(K, 1))

\* w * (S / m) in doubles is the double just below the integer w*S/m
ProductBelow(w, S, m) ==
    LET a == FloorLog2(S, m)
        r == ShiftMod(S, 52 - a, m)
        K == (w * S) \div m
        j == FloorLog2(K, 1)
        e == j - a + 1 - (IF IsPow2(K) THEN 1 ELSE 0)
    IN  r > 0 /\ 2 * r < m /\ 4 * w * r > m * Pow2(e)

\* int(w * (S / m)) as line 16 computes it, 1 <= w and 1 <= m
ScaledInt(w, S, m) ==
    IF (w * S) % m # 0 THEN (w * S) \div m
    ELSE IF ProductBelow(w, S, m) THEN (w * S) \div m - 1
    ELSE (w * S) \div m

\* cv2.resize raises when a side of dsize is not positive
ResizeOk(new_w, new_h) == new_w > 0 /\ new_h > 0

preprocess_image(readable, h0, w0, target_size) ==
    LET m == Max(h0, w0)
        new_w == ScaledInt(w0, target_size, m)
        new_h == ScaledInt(h0, target_size, m)
        dw == target_size - new_w
        dh == target_size - new_h
        top == dh \div 2
        bottom == dh - dh \div 2
        left == dw \div 2
        right == dw - dw \div 2
        geom == [new_w |-> new_w, new_h |-> new_h, top |-> top,
                 bottom |-> bottom, left |-> left, right |-> right]
    IN  IF ~readable
        THEN [status |-> "FileNotFoundError", geom |-> <<>>,
              canvas_w |-> 0, canvas_h |-> 0]
        ELSE IF ~ResizeOk(new_w, new_h)
                \/ top < 0 \/ bottom < 0 \/ left < 0 \/ right < 0
        THEN [status |-> "cv2.error", geom |-> geom,
              canvas_w |-> 0, canvas_h |-> 0]
        ELSE [status |-> "ok", geom |-> geom,
              canvas_w |-> left + new_w + right,
              canvas_h |-> top + new_h + bottom]

(***************************************************************************)
(* The window.  The files the dialog can return: a photo cv2 and PIL both  *)
(* decode, a 1 x 1000 strip both decode, and a file neither decodes.       *)
(***************************************************************************)
Paths == {"crowd.jpg", "strip.png", "corrupt.jpg"}

\* Image.open(path) succeeds (line 62)
PilOpens(p) == p \in {"crowd.jpg", "strip.png"}

\* cv2.imread(path) returns an array (line 11)
CvReads(p) == p \in {"crowd.jpg", "strip.png"}

\* img0.shape[:2] of a decodable file, <<h0, w0>> (line 14)
Shape(p) ==
    IF p = "crowd.jpg" THEN <<480, 640>>
    ELSE IF p = "strip.png" THEN <<1, 1000>>
    ELSE <<1, 1>>

\* str(count) for count >= 0 (line 78): the decimal digits, most significant
\* first, no leading zero
DigitChars == <<"0", "1", "2", "3", "4", "5", "6", "7", "8", "9">>

RECURSIVE IntToStr(_)
IntToStr(n) ==
    IF n < 10 THEN <<DigitChars[n + 1]>>
    ELSE Append(IntToStr(n \div 10), DigitChars[(n % 10) + 1])

\* `not img_path` (line 68): None and the empty string are falsy
NoImageSelected_NoneOnly(p) == p = None

NoImageSelected(p) == p \in {None, ""}

\* occ = occupancy_level(count); count_var.set(str(count));
\* occupancy_var.set(occ)  (lines 74, 78, 79)
ResultFields_PreviewArea(count) ==
    [count |-> IntToStr(count),
     occupancy |-> occupancy_level(count, PreviewSide * PreviewSide,
                                   DefaultAvgArea)]

ResultFields(count) ==
    [count |-> IntToStr(count),
     occupancy |-> occupancy_level(count, DefaultImageArea, DefaultAvgArea)]

\* browse_image never touches count_var or occupancy_var (lines 58-65)
BrowseResultFields_Reset ==
    count_var' = <<"0">> /\ occupancy_var' = "N/A"

BrowseResultFields == UNCHANGED <<count_var, occupancy_var>>

Done(kind, outcome, steps, n, propagated) ==
    last' = [kind |-> kind, outcome |-> outcome, steps |-> steps, n |-> n,
             propagated |-> propagated]

\* browse_image (lines 58-65).  choice is what askopenfilename returns: ""
\* when the dialog is cancelled.  img_path is assigned before the file is
\* opened, and nothing in the handler catches what Image.open raises.
BrowseImage(choice) ==
    /\ call = NoCall
    /\ img_path' = choice
    /\ ever_selected' = (ever_selected \/ choice # "")
    /\ BrowseResultFields
    /\ UNCHANGED <<runs_ok, fn_vars>>
    /\ IF choice = ""
       THEN /\ Done("browse", "cancel", {}, 0, FALSE)
            /\ UNCHANGED img_label
       ELSE IF ~PilOpens(choice)
       THEN /\ Done("browse", "raised", {"open"}, 0, TRUE)
            /\ UNCHANGED img_label
       ELSE /\ Done("browse", "ok", {"open", "show"}, 0, FALSE)
            /\ img_label' = [kind |-> "preview", path |-> choice]

Faults == {"none", "detect", "annotate", "render"}

\* process_image (lines 67-89).  n is the number of boxes the detector
\* returns; fault names the step that raises for a reason outside the
\* program (the detector, the copy in draw_results, the Tk image), "none"
\* when none does.  Whether preprocess_image raises is decided by the file.
ProcessImage(fault, n) ==
    /\ call = NoCall
    /\ UNCHANGED <<img_path, ever_selected, fn_vars>>
    /\ IF NoImageSelected(img_path)
       THEN /\ Done("process", "warning", {}, 0, FALSE)
            /\ UNCHANGED <<img_label, count_var, occupancy_var, runs_ok>>
       ELSE LET pre == preprocess_image(CvReads(img_path), Shape(img_path)[1],
                                        Shape(img_path)[2], DefaultTargetSize)
                f == ResultFields(n)
            IN  IF pre.status # "ok"
                THEN /\ Done("process", "error", {"preprocess"}, 0, FALSE)
                     /\ UNCHANGED <<img_label, count_var, occupancy_var,
                                    runs_ok>>
                ELSE IF fault = "detect"
                THEN /\ Done("process", "error", {"preprocess", "detect"}, 0,
                             FALSE)
                     /\ UNCHANGED <<img_label, count_var, occupancy_var,
                                    runs_ok>>
                ELSE IF fault = "annotate"
                THEN /\ Done("process", "error",
                             {"preprocess", "detect", "classify", "annotate"},
                             n, FALSE)
                     /\ UNCHANGED <<img_label, count_var, occupancy_var,
                                    runs_ok>>
                ELSE IF fault = "render"
                THEN /\ count_var' = f.count
                     /\ occupancy_var' = f.occupancy
                     /\ Done("process", "error",
                             {"preprocess", "detect", "classify", "annotate",
                              "render"}, n, FALSE)
                     /\ UNCHANGED <<img_label, runs_ok>>
                ELSE /\ count_var' = f.count
                     /\ occupancy_var' = f.occupancy
                     /\ img_label' = [kind |-> "annotated", path |-> img_path]
                     /\ runs_ok' = TRUE
                     /\ Done("process", "ok",
                             {"preprocess", "detect", "classify", "annotate",
                              "render"}, n, FALSE)

Init == InitGui /\ IdleFn

Next ==
    \/ \E choice \in Paths \cup {""} : BrowseImage(choice)
    \/ \E fault \in Faults, n \in 0..MaxBoxes : ProcessImage(fault, n)

Spec == Init /\ [][Next]_vars

(***************************************************************************)
(* SpecPre: preprocess_image on decodable images of bounded shape.         *)
(***************************************************************************)
\* target_size: the default when i = 0, else i
TargetSize(i) == IF i = 0 THEN DefaultTargetSize ELSE i

\* heights and widths: the small ones, and two sides of real photographs
Sides == (1..MaxDim) \cup {77, 1000}

InitPre ==
    /\ InitGui
    /\ heap = <<>>
    /\ ret = NoRet
    /\ \E i \in 0..MaxTarget, h \in Sides, w \in Sides :
          call = [fn |-> "preprocess_image", h0 |-> h, w0 |-> w,
                  target_size |-> TargetSize(i)]

ApplyPreprocess ==
    /\ call.fn = "preprocess_image"
    /\ ret = NoRet
    /\ ret' = preprocess_image(TRUE, call.h0, call.w0, call.target_size)
    /\ UNCHANGED <<gui_vars, call, heap>>

NextPre == ApplyPreprocess

SpecPre == InitPre /\ [][NextPre]_vars

PreDone == call.fn = "preprocess_image" /\ ret # NoRet

\* C2 (as claimed): for every H >= 1, W >= 1 and positive target_size S the
\* call yields an S x S canvas, new_w >= 1 and new_h >= 1, the four paddings
\* are non-negative and new_w + left + right = S, new_h + top + bottom = S.
C2_Claim ==
    PreDone =>
        /\ ret.status = "ok"
        /\ ret.canvas_w = call.target_size
        /\ ret.canvas_h = call.target_size
        /\ ret.geom.new_w >= 1 /\ ret.geom.new_h >= 1
        /\ ret.geom.top >= 0 /\ ret.geom.bottom >= 0
        /\ ret.geom.left >= 0 /\ ret.geom.right >= 0
        /\ ret.geom.new_w + ret.geom.left + ret.geom.right = call.target_size
        /\ ret.geom.new_h + ret.geom.top + ret.geom.bottom = call.target_size

\* C6 (as claimed): new_w and new_h are W*S/max(H,W) and H*S/max(H,W)
\* rounded to the nearest integer, i.e. at most one half away from them.
\* Stated for the calls that return, so that a violation does not rest on
\* the resize of an empty side.
C6_Claim ==
    (PreDone /\ ret.status = "ok") =>
        LET m == Max(call.h0, call.w0)
            Near(x, side) ==
                /\ 2 * x * m - 2 * side * call.target_size <= m
                /\ 2 * side * call.target_size - 2 * x * m <= m
        IN  /\ Near(ret.geom.new_w, call.w0)
            /\ Near(ret.geom.new_h, call.h0)

(***************************************************************************)
(* draw_results (lines 49-54).  An image is a numpy array on the heap, a   *)
(* reference to a function from pixel positions <<x, y>> to colours;       *)
(* img0.copy() allocates a new array and cv2.rectangle writes into the     *)
(* array it is handed.  A box holds the four integers map(int, ...) yields *)
(* (line 52).  The rasterisation of cv2.rectangle with thickness 2 is      *)
(* OpenCV's; the model paints the pixels of the image at most one pixel    *)
(* from the outline of the box.                                            *)
(***************************************************************************)
Pixels == (0..ImgSide - 1) \X (0..ImgSide - 1)

Colours == {"dark", "green"}

\* the images tried: one colour, or two colours in a checkerboard
Images ==
    {[p \in Pixels |-> IF (p[1] + p[2]) % 2 = 0 THEN c1 ELSE c2] :
        c1 \in Colours, c2 \in Colours}

Boxes ==
    {b \in [x1 : 0..ImgSide, y1 : 0..ImgSide, x2 : 0..ImgSide, y2 : 0..ImgSide] :
        b.x1 < b.x2 /\ b.y1 < b.y2}

RECURSIVE SeqsUpTo(_, _)
SeqsUpTo(S, n) ==
    IF n = 0 THEN {<<>>}
    ELSE LET shorter == SeqsUpTo(S, n - 1)
         IN  shorter \cup {Append(q, b) : q \in shorter, b \in S}

OnOutline(p, b) ==
    /\ b.x1 - 1 <= p[1] /\ p[1] <= b.x2 + 1
    /\ b.y1 - 1 <= p[2] /\ p[2] <= b.y2 + 1
    /\ ~ (/\ b.x1 + 1 < p[1] /\ p[1] < b.x2 - 1
          /\ b.y1 + 1 < p[2] /\ p[2] < b.y2 - 1)

\* cv2.rectangle(im0, (x1, y1), (x2, y2), (0, 255, 0), 2) (line 53)
Rectangle(h, ref, b) ==
    [h EXCEPT ![ref] =
        [p \in Pixels |-> IF OnOutline(p, b) THEN "green" ELSE @[p]]]

\* img0.copy() (line 50): a new array with the same pixels
ArrayCopy_Alias(h, ref) == [heap |-> h, ref |-> ref]

ArrayCopy(h, ref) == [heap |-> Append(h, h[ref]), ref |-> Len(h) + 1]

\* the loop of lines 51-53 over det.boxes
RECURSIVE DrawBoxes(_, _, _)
DrawBoxes(h, ref, boxes) ==
    IF boxes = <<>> THEN h
    ELSE DrawBoxes(Rectangle(h, ref, Head(boxes)), ref, Tail(boxes))

draw_results(h, img0, boxes) ==
    LET c == ArrayCopy(h, img0)
    IN  [heap |-> DrawBoxes(c.heap, c.ref, boxes), ref |-> c.ref]

(***************************************************************************)
(* SpecDraw: draw_results on bounded images and detection sequences.       *)
(***************************************************************************)
InitDraw ==
    /\ InitGui
    /\ ret = NoRet
    /\ \E img \in Images, boxes \in SeqsUpTo(Boxes, MaxDet) :
          /\ heap = <<img>>
          /\ call = [fn |-> "draw_results", img0 |-> 1, pixels |-> img,
                     boxes |-> boxes]

ApplyDrawResults ==
    /\ call.fn = "draw_results"
    /\ ret = NoRet
    /\ LET r == draw_results(heap, call.img0, call.boxes)
       IN  /\ heap' = r.heap
           /\ ret' = [status |-> "ok", ref |-> r.ref]
    /\ UNCHANGED <<gui_vars, call>>

NextDraw == ApplyDrawResults

SpecDraw == InitDraw /\ [][NextDraw]_vars

DrawDone == call.fn = "draw_results" /\ ret # NoRet

\* C8: draw_results with an empty detection sequence returns an image with
\* the pixels of its input, and for any detection sequence the input image
\* keeps its pixels (the rectangles are drawn on a copy).
C8_DrawsOnCopy ==
    DrawDone =>
        /\ heap[call.img0] = call.pixels
        /\ (call.boxes = <<>>) => (heap[ret.ref] = call.pixels)

\* C8 witness: two boxes were drawn, the returned image differs from the
\* input and the input still has its pixels.
C8_Witness ==
    /\ DrawDone
    /\ Len(call.boxes) = 2
    /\ heap[ret.ref] # call.pixels
    /\ heap[call.img0] = call.pixels

(***************************************************************************)
(* Claims about the window, checked under Spec.                            *)
(***************************************************************************)
IsDigits(str) == \A i \in 1..Len(str) : \E d \in 1..10 : str[i] = DigitChars[d]

DigitValue(c) == CHOOSE d \in 0..9 : DigitChars[d + 1] = c

RECURSIVE DecimalValue(_)
DecimalValue(str) ==
    IF Len(str) = 0 THEN 0
    ELSE 10 * DecimalValue(SubSeq(str, 1, Len(str) - 1))
         + DigitValue(str[Len(str)])

\* str is the decimal string of n: digits only, no leading zero, value n
IsDecimalOf(str, n) ==
    /\ Len(str) >= 1
    /\ IsDigits(str)
    /\ (Len(str) > 1 => str[1] # "0")
    /\ DecimalValue(str) = n

\* C3 (as claimed): when a step of process_image fails after an image was
\* selected, the error is shown and the displayed count, occupancy label and
\* image all equal their values from before the action.
C3_Claim ==
    [][(last'.kind = "process" /\ last'.outcome = "error")
          => UNCHANGED <<count_var, occupancy_var, img_label>>]_vars

\* C4: when detection is requested while img_path is unset (None or empty),
\* process_image only raises the warning: no preprocessing, detection,
\* classification or annotation is attempted and the displayed count,
\* occupancy label and image are unchanged.
C4_NoImageOnlyWarns ==
    [][(last'.kind = "process" /\ img_path \in {None, ""})
          => /\ last'.outcome = "warning"
             /\ last'.steps = {}
             /\ UNCHANGED <<count_var, occupancy_var, img_label>>]_vars

\* C4 witness: the warning was raised with an empty img_path while results
\* of an earlier run are on display.
C4_Witness ==
    /\ last.kind = "process" /\ last.outcome = "warning"
    /\ img_path = ""
    /\ runs_ok /\ count_var # <<"0">>

\* C5: after a process_image run that completes with the detector returning
\* n boxes, count_var is the decimal string of n and occupancy_var is
\* occupancy_level(n) with the defaults 640*640 and 15000; n = 0 gives "0"
\* and "Low".
C5_SuccessShowsCountAndLevel ==
    (last.kind = "process" /\ last.outcome = "ok") =>
        /\ IsDecimalOf(count_var, last.n)
        /\ occupancy_var = occupancy_level(last.n, 409600, 15000)
        /\ (last.n = 0) => (count_var = <<"0">> /\ occupancy_var = "Low")

\* C5 witness: a run has completed with a two-digit count in the Medium band.
C5_Witness ==
    /\ last.kind = "process" /\ last.outcome = "ok"
    /\ last.n = 10
    /\ count_var = <<"1", "0">>
    /\ occupancy_var = "Medium"

\* C7 (as claimed): when browse_image picks a path that cannot be opened, the
\* failure is handled inside the handler and img_path, the displayed image,
\* the displayed count and the displayed occupancy are as before the action.
C7_Claim ==
    [][(last'.kind = "browse" /\ last'.outcome = "raised")
          => /\ ~last'.propagated
             /\ UNCHANGED <<img_path, img_label, count_var, occupancy_var>>]_vars

\* C9 (as claimed): once a choose-file action has selected a path, no later
\* run-detection request takes the warning branch, also after a later
\* cancelled dialog.
C9_Claim ==
    (ever_selected /\ last.kind = "process") => last.outcome # "warning"

\* C10: in every reachable state either no run has completed and the fields
\* show "0" and "N/A", or occupancy_var is one of Low/Medium/High and equals
\* occupancy_level of the displayed count; once a run has completed the
\* label is never "N/A".
C10_FieldsConsistent ==
    /\ \/ (~runs_ok /\ count_var = <<"0">> /\ occupancy_var = "N/A")
       \/ /\ occupancy_var \in Levels
          /\ IsDigits(count_var)
          /\ occupancy_var
                = occupancy_level(DecimalValue(count_var), 409600, 15000)
    /\ runs_ok => occupancy_var # "N/A"

\* C10 witness: results of a completed run in the High band stay on display
\* after a later dialog was cancelled.
C10_Witness ==
    /\ runs_ok
    /\ last.kind = "browse" /\ last.outcome = "cancel"
    /\ occupancy_var = "High"
    /\ count_var = <<"1", "7">>

=============================================================================
